---- MODULE Spec2Model ----
(***************************************************************************)
(* Argon2 memory-filling engine (argon2/src/lib.rs, segment_view.rs):      *)
(* the Context's entry points, the seeding and pass x slice x lane         *)
(* schedule of fill_blocks with the lane tasks of one slice interleaved,   *)
(* the SegmentView cursor with its reference-index addressing, and the     *)
(* finalizer.                                                              *)
(***************************************************************************)
EXTENDS Integers, Sequences, FiniteSets, TLC

(***************************************************************************)
(* Bounds of the model.                                                    *)
(***************************************************************************)
MaxLanes == 2
MaxSegmentLength == 3
MaxIterations == 2
MaxBlockCount == 24
MaxProbeSegmentLength == 5
BlockBits == 3
LongSegmentLength == 130

(***************************************************************************)
(* Program constants.                                                      *)
(***************************************************************************)
SYNC_POINTS == 4
ADDRESSES_IN_BLOCK == 128
FIRST_BLOCKS == 2

(***************************************************************************)
(* usize lengths that exceed the checker's integers are kept as two 16-bit *)
(* limbs: the value is hi * 2^16 + lo.                                     *)
(***************************************************************************)
USize(h, l) == [hi |-> h, lo |-> l]

LenLess(a, b) == a.hi < b.hi \/ (a.hi = b.hi /\ a.lo < b.lo)

\* `x as u32`: truncation to the low 32 bits
AsU32(a) == [hi |-> a.hi % 65536, lo |-> a.lo]

MAX_PWD_LEN == USize(65535, 65535)
MIN_SALT_LEN == USize(0, 8)
MAX_SALT_LEN == USize(65535, 65535)
MIN_OUTPUT_LEN == USize(0, 4)
MAX_OUTPUT_LEN == USize(65535, 65535)
DEFAULT_OUTPUT_LEN == USize(0, 32)

(***************************************************************************)
(* 32-bit and 64-bit words are little-endian sequences of base-256 digits, *)
(* so that the products of ref_block are computed at full width.           *)
(***************************************************************************)
RECURSIVE ToDigits(_, _)
ToDigits(n, k) == IF k = 0 THEN << >> ELSE <<n % 256>> \o ToDigits(n \div 256, k - 1)

RECURSIVE ToNat(_)
ToNat(d) == IF d = << >> THEN 0 ELSE d[1] + 256 * ToNat(Tail(d))

RECURSIVE ColumnSum(_, _, _, _)
ColumnSum(a, b, k, i) ==
    IF i > Len(a) THEN 0
    ELSE (IF k + 1 - i >= 1 /\ k + 1 - i <= Len(b) THEN a[i] * b[k + 1 - i] ELSE 0)
         + ColumnSum(a, b, k, i + 1)

RECURSIVE Propagate(_, _, _, _)
Propagate(a, b, k, carry) ==
    IF k > Len(a) + Len(b) THEN << >>
    ELSE LET s == ColumnSum(a, b, k, 1) + carry
         IN  <<s % 256>> \o Propagate(a, b, k + 1, s \div 256)

\* a * b, Len(a) + Len(b) digits wide (never overflows)
MulDigits(a, b) == Propagate(a, b, 1, 0)

\* x >> 32
Shr32(d) == SubSeq(d, 5, Len(d))

\* x & 0xFFFFFFFF
Low32(d) == SubSeq(d, 1, 4)

RECURSIVE DigitsMod(_, _)
DigitsMod(d, m) ==
    IF d = << >> THEN 0 ELSE (d[1] + 256 * DigitsMod(Tail(d), m)) % m

\* a u64 from its two 32-bit halves given as byte sequences
U64(hi4, lo4) == lo4 \o hi4

(***************************************************************************)
(* Block (block.rs): contents are abstracted to BlockBits bits.            *)
(***************************************************************************)
BlockVals == 0 .. (2^BlockBits - 1)

\* Block::default()
ZeroBlock == 0

RECURSIVE BitXor(_, _)
BitXor(a, b) ==
    IF a = 0 /\ b = 0 THEN 0
    ELSE (((a % 2) + (b % 2)) % 2) + 2 * BitXor(a \div 2, b \div 2)

\* the mixing permutation applied to the XOR of the inputs: a doubling in
\* GF(2^BlockBits) followed by an increment
Permute(r) ==
    LET doubled == IF 2 * r < 2^BlockBits THEN 2 * r ELSE BitXor(2 * r - 2^BlockBits, 3)
    IN  (doubled + 1) % (2^BlockBits)

\* Block::compress(prev, ref): permute the XOR of the inputs, XOR it back in
compress(prev, ref) == BitXor(Permute(BitXor(prev, ref)), BitXor(prev, ref))

Bytes4(n) == ToDigits(n, 4)

\* 64-bit words a block can show, as <<high half, low half>>
WordSamples ==
    << <<Bytes4(0), Bytes4(0)>>,
       <<Bytes4(1), <<255, 255, 255, 255>> >>,
       << <<255, 255, 255, 255>>, <<0, 0, 0, 128>> >>,
       <<Bytes4(2), <<52, 243, 4, 181>> >>,
       <<Bytes4(1), Bytes4(0)>>,
       <<Bytes4(0), <<255, 255, 255, 255>> >>,
       <<Bytes4(3), <<67, 215, 179, 221>> >>,
       <<Bytes4(1), <<1, 0, 1, 0>> >> >>

\* block.as_ref()[index]
Word(block, index) ==
    LET s == WordSamples[((block + 3 * index + index \div 7) % Len(WordSamples)) + 1]
    IN  U64(s[1], s[2])

(***************************************************************************)
(* Params (params.rs): the derived geometry.                               *)
(***************************************************************************)
lanes(params) == params.lanes

segment_length(params) == params.segment_length

lane_length(params) == SYNC_POINTS * segment_length(params)

block_count(params) == lanes(params) * lane_length(params)

iterations(params) == params.iterations

\* the memory cost as configured; block_count is m_cost rounded down to a
\* multiple of SYNC_POINTS * lanes
m_cost(params) == params.m_cost

(***************************************************************************)
(* SegmentView (segment_view.rs).                                          *)
(***************************************************************************)
\* faulty variant: only the first block of a lane is taken as initialized
SegmentView_new_OneSeed(pass, slice, lane, params) ==
    LET first_block == IF pass = 0 /\ slice = 0 THEN 1 ELSE 0
        cur_index == lane * lane_length(params) + slice * segment_length(params) + first_block
        prev_index == IF slice = 0 /\ first_block = 0
                      THEN cur_index + lane_length(params) - 1
                      ELSE cur_index - 1
    IN  [pass |-> pass, slice |-> slice, lane |-> lane, b |-> first_block,
         prev_index |-> prev_index, cur_index |-> cur_index]

\* faulty variant: the previous block of the first block of a lane is taken
\* one short of the lane's last block
SegmentView_new_WrapShort(pass, slice, lane, params) ==
    LET first_block == IF pass = 0 /\ slice = 0 THEN FIRST_BLOCKS ELSE 0
        cur_index == lane * lane_length(params) + slice * segment_length(params) + first_block
        prev_index == IF slice = 0 /\ first_block = 0
                      THEN cur_index + lane_length(params) - 2
                      ELSE cur_index - 1
    IN  [pass |-> pass, slice |-> slice, lane |-> lane, b |-> first_block,
         prev_index |-> prev_index, cur_index |-> cur_index]

\* faulty variant: the first two blocks of a lane are skipped in every pass
SegmentView_new_SkipEveryPass(pass, slice, lane, params) ==
    LET first_block == IF slice = 0 THEN FIRST_BLOCKS ELSE 0
        cur_index == lane * lane_length(params) + slice * segment_length(params) + first_block
        prev_index == IF slice = 0 /\ first_block = 0
                      THEN cur_index + lane_length(params) - 1
                      ELSE cur_index - 1
    IN  [pass |-> pass, slice |-> slice, lane |-> lane, b |-> first_block,
         prev_index |-> prev_index, cur_index |-> cur_index]

SegmentView_new(pass, slice, lane, params) ==
    LET first_block == IF pass = 0 /\ slice = 0 THEN FIRST_BLOCKS ELSE 0
        cur_index == lane * lane_length(params) + slice * segment_length(params) + first_block
        prev_index == IF slice = 0 /\ first_block = 0
                      THEN cur_index + lane_length(params) - 1
                      ELSE cur_index - 1
    IN  [pass |-> pass, slice |-> slice, lane |-> lane, b |-> first_block,
         prev_index |-> prev_index, cur_index |-> cur_index]

\* faulty variant: the cursor stops one block early
Exhausted_OneEarly(view, params) == view.b + 1 >= segment_length(params)

\* next: the cursor has reached the end of its segment
Exhausted(view, params) == view.b = segment_length(params)

\* next: the cursor moves on by one block
Advance(view) ==
    [view EXCEPT !.b = @ + 1, !.prev_index = view.cur_index, !.cur_index = @ + 1]

\* faulty variant: the first segment is not kept in its own lane
RefLane_NoFirstSegmentCase(view, rand, params) == DigitsMod(Shr32(rand), lanes(params))

\* (rand >> 32) as usize % lanes, or the own lane in the first segment
RefLane(view, rand, params) ==
    IF view.pass = 0 /\ view.slice = 0
    THEN view.lane
    ELSE DigitsMod(Shr32(rand), lanes(params))

\* faulty variant: in the cursor's own lane the area reaches the previous
\* block
ReferenceAreaSize_WithPrevious(view, ref_lane, params) ==
    IF view.pass = 0
    THEN IF view.slice = 0
         THEN view.b
         ELSE IF ref_lane = view.lane
              THEN view.slice * segment_length(params) + view.b
              ELSE view.slice * segment_length(params) - (IF view.b = 0 THEN 1 ELSE 0)
    ELSE IF ref_lane = view.lane
         THEN lane_length(params) - segment_length(params) + view.b
         ELSE lane_length(params) - segment_length(params) - (IF view.b = 0 THEN 1 ELSE 0)

\* faulty variant: after the first pass another lane is referenced over its
\* whole length, the segment being written included
ReferenceAreaSize_WholeLane(view, ref_lane, params) ==
    IF view.pass = 0
    THEN IF view.slice = 0
         THEN view.b - 1
         ELSE IF ref_lane = view.lane
              THEN view.slice * segment_length(params) + view.b - 1
              ELSE view.slice * segment_length(params) - (IF view.b = 0 THEN 1 ELSE 0)
    ELSE IF ref_lane = view.lane
         THEN lane_length(params) - segment_length(params) + view.b - 1
         ELSE lane_length(params) - (IF view.b = 0 THEN 1 ELSE 0)

ReferenceAreaSize(view, ref_lane, params) ==
    IF view.pass = 0
    THEN IF view.slice = 0
         THEN view.b - 1
         ELSE IF ref_lane = view.lane
              THEN view.slice * segment_length(params) + view.b - 1
              ELSE view.slice * segment_length(params) - (IF view.b = 0 THEN 1 ELSE 0)
    ELSE IF ref_lane = view.lane
         THEN lane_length(params) - segment_length(params) + view.b - 1
         ELSE lane_length(params) - segment_length(params) - (IF view.b = 0 THEN 1 ELSE 0)

\* faulty variant: the low half of rand is used without being squared
RelativePosition_Linear(reference_area_size, rand) ==
    reference_area_size - 1
      - ToNat(Shr32(MulDigits(ToDigits(reference_area_size, 8), Low32(rand))))

\* map = ((rand & 0xFFFFFFFF)^2) >> 32;  area - 1 - ((area * map) >> 32)
RelativePosition(reference_area_size, rand) ==
    LET map == Shr32(MulDigits(Low32(rand), Low32(rand)))
    IN  reference_area_size - 1
          - ToNat(Shr32(MulDigits(ToDigits(reference_area_size, 8), map)))

\* faulty variant: the reference area always starts at the head of the lane
StartPosition_LaneHead(view, params) == 0

\* faulty variant: the first pass too starts the reference area at the next
\* segment
StartPosition_NextSegment(view, params) ==
    IF view.slice # SYNC_POINTS - 1
    THEN (view.slice + 1) * segment_length(params)
    ELSE 0

StartPosition(view, params) ==
    IF view.pass # 0 /\ view.slice # SYNC_POINTS - 1
    THEN (view.slice + 1) * segment_length(params)
    ELSE 0

\* faulty variant: the reference lane is left out of the index
ref_block_NoLaneOffset(view, rand, params) ==
    LET ref_lane == RefLane(view, rand, params)
        reference_area_size == ReferenceAreaSize(view, ref_lane, params)
        relative_position == RelativePosition(reference_area_size, rand)
        start_position == StartPosition(view, params)
    IN  (start_position + relative_position) % lane_length(params)

\* index of the block ref_block(rand) returns
ref_block(view, rand, params) ==
    LET ref_lane == RefLane(view, rand, params)
        reference_area_size == ReferenceAreaSize(view, ref_lane, params)
        relative_position == RelativePosition(reference_area_size, rand)
        start_position == StartPosition(view, params)
        lane_index == (start_position + relative_position) % lane_length(params)
    IN  ref_lane * lane_length(params) + lane_index

(***************************************************************************)
(* Algorithm and Version (algorithm.rs, version.rs).                       *)
(***************************************************************************)
Algorithms == {"Argon2d", "Argon2i", "Argon2id"}

Versions == {"V0x10", "V0x13"}

\* `algorithm as u64`
AlgorithmCode(algorithm) ==
    CASE algorithm = "Argon2d" -> 0
      [] algorithm = "Argon2i" -> 1
      [] algorithm = "Argon2id" -> 2

\* `version as u32`
VersionCode(version) == IF version = "V0x10" THEN 16 ELSE 19

(***************************************************************************)
(* The fill_segment closure of fill_blocks (lib.rs).                       *)
(***************************************************************************)
\* faulty variant: the hybrid variant stays data-independent for the whole
\* first pass
data_independent_addressing_FirstPass(algorithm, pass, slice) ==
    CASE algorithm = "Argon2i" -> TRUE
      [] algorithm = "Argon2id" -> pass = 0
      [] OTHER -> FALSE

data_independent_addressing(algorithm, pass, slice) ==
    CASE algorithm = "Argon2i" -> TRUE
      [] algorithm = "Argon2id" -> pass = 0 /\ slice < SYNC_POINTS \div 2
      [] OTHER -> FALSE

\* Block::default() as the input block: every word, the counter too, is 0
DefaultInputBlock ==
    [pass |-> 0, lane |-> 0, slice |-> 0, block_count |-> 0, iterations |-> 0,
     algorithm |-> 0, counter |-> 0]

\* the contents of an input block, abstracted to a block value
InputBlockValue(input_block) ==
    (input_block.pass + 3 * input_block.lane + 5 * input_block.slice
       + 7 * input_block.block_count + 11 * input_block.iterations
       + 13 * input_block.algorithm + 17 * input_block.counter) % (2^BlockBits)

update_address_block(address_block, input_block) ==
    LET input == [input_block EXCEPT !.counter = @ + 1]
        first == compress(ZeroBlock, InputBlockValue(input))
    IN  [address_block |-> compress(ZeroBlock, first), input_block |-> input]

\* faulty variant: no first set of addresses is generated for the first
\* segment of a lane
fill_segment_begin_NoFirstAddresses(ctx, pass, slice, lane) ==
    LET di == data_independent_addressing(ctx.algorithm, pass, slice)
        input_block ==
            IF di
            THEN [pass |-> pass, lane |-> lane, slice |-> slice,
                  block_count |-> block_count(ctx.params),
                  iterations |-> iterations(ctx.params),
                  algorithm |-> AlgorithmCode(ctx.algorithm), counter |-> 0]
            ELSE DefaultInputBlock
        view == SegmentView_new(pass, slice, lane, ctx.params)
    IN  [st |-> "running", view |-> view, data_independent |-> di,
         address_block |-> ZeroBlock, input_block |-> input_block,
         cur |-> view.cur_index, prev |-> view.prev_index, ref |-> view.prev_index,
         rand |-> U64(Bytes4(0), Bytes4(0)), yields |-> 0]

\* fill_segment up to the construction of the SegmentView
fill_segment_begin(ctx, pass, slice, lane) ==
    LET di == data_independent_addressing(ctx.algorithm, pass, slice)
        input_block ==
            IF di
            THEN [pass |-> pass, lane |-> lane, slice |-> slice,
                  block_count |-> block_count(ctx.params),
                  iterations |-> iterations(ctx.params),
                  algorithm |-> AlgorithmCode(ctx.algorithm), counter |-> 0]
            ELSE DefaultInputBlock
        first == IF di /\ pass = 0 /\ slice = 0
                 THEN update_address_block(ZeroBlock, input_block)
                 ELSE [address_block |-> ZeroBlock, input_block |-> input_block]
        view == SegmentView_new(pass, slice, lane, ctx.params)
    IN  [st |-> "running", view |-> view, data_independent |-> di,
         address_block |-> first.address_block, input_block |-> first.input_block,
         cur |-> view.cur_index, prev |-> view.prev_index, ref |-> view.prev_index,
         rand |-> U64(Bytes4(0), Bytes4(0)), yields |-> 0]

\* the rng closure: the random value and the address state it leaves
rng(task, b, prev_block) ==
    IF task.data_independent
    THEN LET addres_index == b % ADDRESSES_IN_BLOCK
             upd == IF addres_index = 0
                    THEN update_address_block(task.address_block, task.input_block)
                    ELSE [address_block |-> task.address_block,
                          input_block |-> task.input_block]
         IN  [rand |-> Word(upd.address_block, addres_index),
              address_block |-> upd.address_block, input_block |-> upd.input_block]
    ELSE [rand |-> Word(prev_block, 0),
          address_block |-> task.address_block, input_block |-> task.input_block]

\* SegmentView::next: the task after the call, holding the yielded triple
next(task, mem, params) ==
    IF Exhausted(task.view, params)
    THEN [task EXCEPT !.st = "finished"]
    ELSE LET r == rng(task, task.view.b, mem[task.view.prev_index])
         IN  [task EXCEPT
                !.st = "yielded",
                !.cur = task.view.cur_index,
                !.prev = task.view.prev_index,
                !.ref = ref_block(task.view, r.rand, params),
                !.rand = r.rand,
                !.address_block = r.address_block,
                !.input_block = r.input_block,
                !.yields = @ + 1,
                !.view = Advance(task.view)]

\* faulty variant: version 0x13 accumulates in the first pass too
fill_block_VersionOnly(ctx, task, mem) ==
    LET res == compress(mem[task.prev], mem[task.ref])
    IN  [mem EXCEPT ![task.cur] =
            IF ctx.version = "V0x10" THEN res ELSE BitXor(@, res)]

\* faulty variant: the result always replaces the current block
fill_block_Overwrite(ctx, task, mem) ==
    [mem EXCEPT ![task.cur] = compress(mem[task.prev], mem[task.ref])]

\* the loop body: compress and combine into the current block
fill_block(ctx, task, mem) ==
    LET res == compress(mem[task.prev], mem[task.ref])
    IN  [mem EXCEPT ![task.cur] =
            IF ctx.version = "V0x10" \/ task.view.pass = 0
            THEN res
            ELSE BitXor(@, res)]

(***************************************************************************)
(* The schedule of fill_blocks run lane after lane (`iter = 0..lanes`).    *)
(***************************************************************************)
\* one turn of the for loop: next, and the body if a triple is yielded
RunStep(ctx, tm) ==
    LET t == next(tm.task, tm.mem, ctx.params)
    IN  IF t.st = "finished" THEN [task |-> t, mem |-> tm.mem]
        ELSE [task |-> t, mem |-> fill_block(ctx, t, tm.mem)]

\* up to n turns of the for loop, stopping when the cursor is exhausted
RECURSIVE RunSteps(_, _, _)
RunSteps(ctx, tm, n) ==
    IF n = 0 \/ tm.task.st = "finished" THEN tm
    ELSE IF n = 1 THEN RunStep(ctx, tm)
    ELSE RunSteps(ctx, RunSteps(ctx, tm, n \div 2), n - n \div 2)

\* the for loop over the cursor, run until the cursor is exhausted
RECURSIVE RunSegment(_, _, _)
RunSegment(ctx, task, mem) ==
    LET r == RunSteps(ctx, [task |-> task, mem |-> mem], segment_length(ctx.params))
    IN  IF r.task.st = "finished" THEN r.mem
        ELSE RunSegment(ctx, r.task, r.mem)

RECURSIVE RunSchedule(_, _, _, _, _)
RunSchedule(ctx, mem, pass, slice, lane) ==
    IF pass = iterations(ctx.params) THEN mem
    ELSE IF slice = SYNC_POINTS THEN RunSchedule(ctx, mem, pass + 1, 0, 0)
    ELSE IF lane = lanes(ctx.params) THEN RunSchedule(ctx, mem, pass, slice + 1, 0)
    ELSE RunSchedule(ctx, RunSegment(ctx, fill_segment_begin(ctx, pass, slice, lane), mem),
                     pass, slice, lane + 1)

(***************************************************************************)
(* Context (lib.rs): validation, initial hash, seeding, finalizer.         *)
(***************************************************************************)
\* Option<usize>
None == [some |-> FALSE, len |-> USize(0, 0)]

Some(l) == [some |-> TRUE, len |-> l]

unwrap_or(opt, default) == IF opt.some THEN opt.len ELSE default

\* faulty variant: the upper bound defaults to the minimum length
verify_output_MinDefault(out_len, params) ==
    IF LenLess(out_len, unwrap_or(params.output_len, MIN_OUTPUT_LEN))
    THEN "OutputTooShort"
    ELSE IF LenLess(unwrap_or(params.output_len, MIN_OUTPUT_LEN), out_len)
         THEN "OutputTooLong"
         ELSE "Ok"

\* lines 207-214: the output length against the configured bounds
verify_output(out_len, params) ==
    IF LenLess(out_len, unwrap_or(params.output_len, MIN_OUTPUT_LEN))
    THEN "OutputTooShort"
    ELSE IF LenLess(unwrap_or(params.output_len, MAX_OUTPUT_LEN), out_len)
         THEN "OutputTooLong"
         ELSE "Ok"

\* faulty variant: a salt of exactly MIN_SALT_LEN bytes is refused
verify_inputs_MinExcluded(pwd_len, salt_len) ==
    IF LenLess(MAX_PWD_LEN, pwd_len) THEN "PwdTooLong"
    ELSE IF ~LenLess(MIN_SALT_LEN, salt_len) THEN "SaltTooShort"
    ELSE IF LenLess(MAX_SALT_LEN, salt_len) THEN "SaltTooLong"
    ELSE "Ok"

verify_inputs(pwd_len, salt_len) ==
    IF LenLess(MAX_PWD_LEN, pwd_len) THEN "PwdTooLong"
    ELSE IF LenLess(salt_len, MIN_SALT_LEN) THEN "SaltTooShort"
    ELSE IF LenLess(MAX_SALT_LEN, salt_len) THEN "SaltTooLong"
    ELSE "Ok"

\* the Blake2b512 digest, kept as the fields it is computed over
initial_hash(ctx, pwd_len, salt_len, out_len) ==
    [p_cost |-> lanes(ctx.params),
     out_len |-> AsU32(out_len),
     m_cost |-> m_cost(ctx.params),
     t_cost |-> iterations(ctx.params),
     version |-> VersionCode(ctx.version),
     algorithm |-> AlgorithmCode(ctx.algorithm),
     pwd_len |-> AsU32(pwd_len),
     salt_len |-> AsU32(salt_len),
     secret_len |-> 0,
     data_len |-> 0]

DigestValue(h) ==
    (7 * h.p_cost + 3 * ((h.out_len.hi + h.out_len.lo) % 64) + 5 * h.m_cost
       + 11 * h.t_cost + 13 * h.version + 17 * h.algorithm
       + 19 * ((h.pwd_len.hi + h.pwd_len.lo) % 64)
       + 23 * ((h.salt_len.hi + h.salt_len.lo) % 64)
       + 29 * h.secret_len + 31 * h.data_len) % (2^BlockBits)

\* blake2b_long(&[initial_hash, i, l], block)
SeedBlock(h, i, l) == (DigestValue(h) + 3 * i + 5 * l + 1) % (2^BlockBits)

\* faulty variant: only a buffer of exactly block_count blocks is taken
get_mut_Exact(mem_len, count) == count = mem_len

\* memory_blocks.get_mut(..block_count) is Some
get_mut(mem_len, count) == count <= mem_len

\* lines 256-273: the first two blocks of each lane
SeedLanes(mem, h, params) ==
    [x \in DOMAIN mem |->
        IF x < block_count(params) /\ x % lane_length(params) < FIRST_BLOCKS
        THEN SeedBlock(h, x % lane_length(params), x \div lane_length(params))
        ELSE mem[x]]

\* faulty variant: the lanes are seeded before the length is checked
fill_blocks_init_SeedFirst(ctx, mem, mem_len, h) ==
    [result |-> IF get_mut(mem_len, block_count(ctx.params)) THEN "Ok"
                ELSE "MemoryTooLittle",
     memory |-> SeedLanes(mem, h, ctx.params)]

\* fill_blocks up to the schedule: the length check, then the seeding
fill_blocks_init(ctx, mem, mem_len, h) ==
    IF ~get_mut(mem_len, block_count(ctx.params))
    THEN [result |-> "MemoryTooLittle", memory |-> mem]
    ELSE [result |-> "Ok", memory |-> SeedLanes(mem, h, ctx.params)]

RECURSIVE XorLastBlocks(_, _, _, _)
XorLastBlocks(mem, params, l, blockhash) ==
    IF l >= lanes(params) THEN blockhash
    ELSE XorLastBlocks(mem, params, l + 1,
            BitXor(blockhash, mem[l * lane_length(params) + (lane_length(params) - 1)]))

\* blake2b_long's own checks of the output length
blake2b_long(out_len) ==
    IF out_len = USize(0, 0) THEN "OutputTooShort"
    ELSE IF out_len.hi > 65535 THEN "OutputTooLong"
    ELSE "Ok"

\* faulty variant: only the last block of lane 0 is stretched to the output
finalize_FirstLaneOnly(ctx, mem, o) ==
    LET blockhash == mem[lane_length(ctx.params) - 1]
        r == blake2b_long(o.len)
    IN  IF r = "Ok"
        THEN [result |-> "Ok",
              out |-> [len |-> o.len, filled |-> o.len,
                       data |-> <<blockhash, AsU32(o.len)>>]]
        ELSE [result |-> r, out |-> o]

finalize(ctx, mem, o) ==
    LET blockhash == XorLastBlocks(mem, ctx.params, 1, mem[lane_length(ctx.params) - 1])
        r == blake2b_long(o.len)
    IN  IF r = "Ok"
        THEN [result |-> "Ok",
              out |-> [len |-> o.len, filled |-> o.len,
                       data |-> <<blockhash, AsU32(o.len)>>]]
        ELSE [result |-> r, out |-> o]

(***************************************************************************)
(* PasswordHasher::hash_password (lib.rs) and what it takes from the       *)
(* password-hash layer.                                                    *)
(***************************************************************************)
\* Salt::b64_decode: the byte length of an unpadded Base64 string
b64_decode_len(chars) == (chars * 3) \div 4

\* From<Error> for password_hash::Error
ConvertError(e) ==
    CASE e = "SaltTooShort" -> "SaltInvalid(TooShort)"
      [] e = "SaltTooLong" -> "SaltInvalid(TooLong)"
      [] OTHER -> e

NoHash == [some |-> FALSE, algorithm |-> "", version |-> 0, t |-> 0, m |-> 0, p |-> 0]

\* ParamsString::try_from(&params): the t, m and p fields
ParamsString(params) ==
    [t |-> iterations(params), m |-> m_cost(params), p |-> lanes(params)]

\* faulty variant: the hash is labelled with the settings of Argon2::default()
PasswordHash_Default(ctx) ==
    [some |-> TRUE, algorithm |-> "Argon2id", version |-> VersionCode("V0x13"),
     t |-> 3, m |-> 4096, p |-> 1]

\* the PasswordHash hash_password builds from self
PasswordHash(ctx) ==
    [some |-> TRUE, algorithm |-> ctx.algorithm, version |-> VersionCode(ctx.version),
     t |-> ParamsString(ctx.params).t, m |-> ParamsString(ctx.params).m,
     p |-> ParamsString(ctx.params).p]

(***************************************************************************)
(* Inputs of the calls.                                                    *)
(***************************************************************************)
\* the smallest memory: one lane of four segments of two blocks
MinBlockCount == SYNC_POINTS * FIRST_BLOCKS

\* every geometry within the bounds; with the smallest, also a fixed output
\* length and a memory cost that is not a multiple of SYNC_POINTS * lanes
ParamsSet ==
    {p \in [lanes : 1 .. MaxLanes,
            segment_length : FIRST_BLOCKS .. MaxSegmentLength,
            iterations : 1 .. MaxIterations,
            output_len : {None, Some(USize(0, 16))},
            m_cost : MinBlockCount .. MaxBlockCount + 1] :
        /\ block_count(p) <= MaxBlockCount
        /\ p.output_len.some => block_count(p) = MinBlockCount
        /\ \/ p.m_cost = block_count(p)
           \/ /\ p.m_cost = block_count(p) + 1
              /\ block_count(p) = MinBlockCount
              /\ ~p.output_len.some}

\* one lane whose segments are longer than an address block
LongParams ==
    {[lanes |-> 1, segment_length |-> LongSegmentLength, iterations |-> 1,
      output_len |-> None, m_cost |-> SYNC_POINTS * LongSegmentLength]}

PwdLens == {USize(0, 8), USize(65536, 0)}

SaltLens == {USize(0, 7), USize(0, 8), USize(65535, 65535), USize(65536, 0)}

OutLens == {USize(0, 3), USize(0, 4), USize(0, 15), USize(0, 16), USize(0, 17),
            USize(65535, 65535), USize(65536, 0)}

SaltChars == {8, 16}

\* the calls tried: every failing combination of the lengths above, the call
\* with every input at its smallest valid value and, on the smallest memory,
\* the succeeding calls with one input off that value
OutOfBounds(params) ==
    IF params.output_len.some
    THEN OutLens \ {params.output_len.len}
    ELSE {USize(0, 3), USize(65536, 0)}

Deviations(c, params) ==
    (IF c.pwd = USize(0, 8) THEN 0 ELSE 1)
    + (IF c.salt = USize(0, 8) THEN 0 ELSE 1)
    + (IF c.out = unwrap_or(params.output_len, MIN_OUTPUT_LEN) THEN 0 ELSE 1)
    + (IF c.spare = 0 THEN 0 ELSE 1)

Calls(params) ==
    {c \in [pwd : PwdLens, salt : SaltLens, out : OutLens, spare : {-1, 0, 1}] :
        \/ Deviations(c, params) = 0
        \/ Deviations(c, params) = 1 /\ block_count(params) = MinBlockCount
        \/ c.pwd = USize(65536, 0)
        \/ c.salt \in {USize(0, 7), USize(65536, 0)}
        \/ c.out \in OutOfBounds(params)
        \/ c.spare = -1}

\* a caller's buffer of n blocks with earlier contents
CallerMemory(n) == [x \in 0 .. n - 1 |-> (2 * x + 1) % (2^BlockBits)]

\* vec![Block::default(); n]
vec(n) == [x \in 0 .. n - 1 |-> ZeroBlock]

FreshOut(l) == [len |-> l, filled |-> USize(0, 0), data |-> << >>]

(***************************************************************************)
(* State.                                                                  *)
(***************************************************************************)
VARIABLES
    self,       \* the Argon2 context: algorithm, version, params
    pc,         \* position of the call: idle, fill, finalize, done
    entry,      \* the entry point called
    pwd_len,    \* pwd.len()
    salt_len,   \* salt.len()
    out,        \* the output buffer
    memory,     \* memory_blocks
    memory0,    \* memory_blocks as the caller supplied them
    h0,         \* << >> or <<initial_hash>>
    pass,       \* loop variable of fill_blocks
    slice,      \* loop variable of fill_blocks
    tasks,      \* the lane tasks of the current (pass, slice)
    result,     \* what the call returned
    hash,       \* the PasswordHash hash_password returned
    writes,     \* per block index, the number of writes of this call
    segments,   \* per (pass, slice, lane), the number of cursors constructed
    probe       \* one application of ref_block to given arguments

vars == <<self, pc, entry, pwd_len, salt_len, out, memory, memory0, h0, pass, slice,
          tasks, result, hash, writes, segments, probe>>

LaneSet == 0 .. lanes(self.params) - 1

PendingTask ==
    [st |-> "pending",
     view |-> [pass |-> 0, slice |-> 0, lane |-> 0, b |-> 0, prev_index |-> 0,
               cur_index |-> 0],
     data_independent |-> FALSE, address_block |-> ZeroBlock,
     input_block |-> DefaultInputBlock, cur |-> 0, prev |-> 0, ref |-> 0,
     rand |-> U64(Bytes4(0), Bytes4(0)), yields |-> 0]

NoTasks == [l \in LaneSet |-> PendingTask]

NoProbe ==
    [view |-> PendingTask.view, rand |-> U64(Bytes4(0), Bytes4(0)),
     params |-> [lanes |-> 1, segment_length |-> FIRST_BLOCKS, iterations |-> 1,
                 output_len |-> None, m_cost |-> MinBlockCount],
     called |-> FALSE, ref |-> 0, reference_area_size |-> 0, relative_position |-> 0]

Idle ==
    /\ pc = "idle"
    /\ entry = "none"
    /\ pwd_len = USize(0, 0)
    /\ salt_len = USize(0, 0)
    /\ out = FreshOut(USize(0, 0))
    /\ memory = << >>
    /\ memory0 = << >>
    /\ h0 = << >>
    /\ pass = 0
    /\ slice = 0
    /\ tasks = NoTasks
    /\ result = "none"
    /\ hash = NoHash
    /\ writes = << >>
    /\ segments = [t \in (0 .. iterations(self.params) - 1) \X (0 .. SYNC_POINTS - 1)
                             \X LaneSet |-> 0]

Init ==
    /\ self \in [algorithm : Algorithms, version : Versions,
                 params : ParamsSet \cup LongParams]
    /\ probe = NoProbe
    /\ Idle

Returned(e) == IF entry' = "hash_password" THEN ConvertError(e) ELSE e

\* the common body of the entry points up to the start of the schedule
Enter(name, pl, sl, o, mem) ==
    LET mem_len == Cardinality(DOMAIN mem)
        vo == IF name = "fill_memory" THEN "Ok" ELSE verify_output(o.len, self.params)
        vi == verify_inputs(pl, sl)
        h == initial_hash(self, pl, sl, o.len)
        fb == fill_blocks_init(self, mem, mem_len, h)
        err == IF vo # "Ok" THEN vo ELSE IF vi # "Ok" THEN vi ELSE fb.result
    IN  /\ pc = "idle"
        /\ entry' = name
        /\ pwd_len' = pl
        /\ salt_len' = sl
        /\ out' = o
        /\ memory0' = mem
        /\ hash' = NoHash
        /\ pass' = 0
        /\ slice' = 0
        /\ tasks' = NoTasks
        /\ UNCHANGED <<self, probe, segments>>
        /\ IF err # "Ok"
           THEN /\ pc' = "done"
                /\ result' = Returned(err)
                /\ h0' = IF vo = "Ok" /\ vi = "Ok" THEN <<h>> ELSE << >>
                /\ memory' = IF vo = "Ok" /\ vi = "Ok" THEN fb.memory ELSE mem
                /\ writes' = [x \in DOMAIN mem |-> 0]
           ELSE /\ pc' = "fill"
                /\ result' = "none"
                /\ h0' = <<h>>
                /\ memory' = fb.memory
                /\ writes' = [x \in DOMAIN mem |->
                                 IF x < block_count(self.params)
                                    /\ x % lane_length(self.params) < FIRST_BLOCKS
                                 THEN 1 ELSE 0]

hash_password_into_with_memory ==
    /\ pc = "idle"
    /\ \E c \in Calls(self.params) :
        Enter("hash_password_into_with_memory", c.pwd, c.salt, FreshOut(c.out),
              CallerMemory(block_count(self.params) + c.spare))

fill_memory ==
    /\ pc = "idle"
    /\ \E c \in Calls(self.params) :
        /\ c.out = unwrap_or(self.params.output_len, MIN_OUTPUT_LEN)
        /\ Enter("fill_memory", c.pwd, c.salt, FreshOut(USize(0, 0)),
                 CallerMemory(block_count(self.params) + c.spare))

\* hash_password, with hash_password_into allocating the blocks
hash_password ==
    /\ pc = "idle"
    /\ \E chars \in SaltChars :
        Enter("hash_password", USize(0, 8), USize(0, b64_decode_len(chars)),
              FreshOut(unwrap_or(self.params.output_len, DEFAULT_OUTPUT_LEN)),
              vec(block_count(self.params)))

(***************************************************************************)
(* The schedule: for_each over the lanes of the current (pass, slice).     *)
(* The lane tasks of one slice run in any interleaving; the build without  *)
(* the parallel feature runs them in the order 0, 1, ..., lanes - 1.       *)
(***************************************************************************)
\* a lane task starts: fill_segment up to SegmentView::new
fill_segment(lane) ==
    /\ pc = "fill"
    /\ tasks[lane].st = "pending"
    /\ tasks' = [tasks EXCEPT ![lane] = fill_segment_begin(self, pass, slice, lane)]
    /\ segments' = [segments EXCEPT ![<<pass, slice, lane>>] = @ + 1]
    /\ UNCHANGED <<self, probe, pc, entry, pwd_len, salt_len, out, memory, memory0, h0, pass,
                   slice, result, hash, writes>>

\* the for loop asks the cursor for the next triple
SegmentView_next(lane) ==
    /\ pc = "fill"
    /\ tasks[lane].st = "running"
    /\ tasks' = [tasks EXCEPT ![lane] = next(tasks[lane], memory, self.params)]
    /\ UNCHANGED <<self, probe, pc, entry, pwd_len, salt_len, out, memory, memory0, h0, pass,
                   slice, result, hash, writes, segments>>

\* the loop body on the yielded triple
fill_segment_body(lane) ==
    /\ pc = "fill"
    /\ tasks[lane].st = "yielded"
    /\ memory' = fill_block(self, tasks[lane], memory)
    /\ writes' = [writes EXCEPT ![tasks[lane].cur] = @ + 1]
    /\ tasks' = [tasks EXCEPT ![lane].st = "running"]
    /\ UNCHANGED <<self, probe, pc, entry, pwd_len, salt_len, out, memory0, h0, pass, slice,
                   result, hash, segments>>

\* faulty variant: for_each returns with the first lane task that does
AllReturned_Any == \E l \in LaneSet : tasks[l].st = "finished"

\* every closure call of for_each has returned
AllReturned == \A l \in LaneSet : tasks[l].st = "finished"

\* for_each returns once every lane task has returned; the loops advance
for_each_join ==
    /\ pc = "fill"
    /\ AllReturned
    /\ tasks' = NoTasks
    /\ IF slice + 1 < SYNC_POINTS
       THEN /\ slice' = slice + 1
            /\ UNCHANGED <<pass, pc, result>>
       ELSE IF pass + 1 < iterations(self.params)
            THEN /\ pass' = pass + 1
                 /\ slice' = 0
                 /\ UNCHANGED <<pc, result>>
            ELSE /\ UNCHANGED <<pass, slice>>
                 /\ IF entry = "fill_memory"
                    THEN pc' = "done" /\ result' = "Ok"
                    ELSE pc' = "finalize" /\ UNCHANGED result
    /\ UNCHANGED <<self, probe, entry, pwd_len, salt_len, out, memory, memory0, h0, hash,
                   writes, segments>>

\* self.finalize(memory_blocks, out), and the PasswordHash of hash_password
Finalize ==
    /\ pc = "finalize"
    /\ LET f == finalize(self, memory, out)
       IN  /\ out' = f.out
           /\ result' = IF entry = "hash_password" THEN ConvertError(f.result)
                         ELSE f.result
           /\ hash' = IF entry = "hash_password" /\ f.result = "Ok"
                       THEN PasswordHash(self) ELSE NoHash
    /\ pc' = "done"
    /\ UNCHANGED <<self, probe, entry, pwd_len, salt_len, memory, memory0, h0, pass, slice,
                   tasks, writes, segments>>

Next ==
    \/ hash_password_into_with_memory
    \/ fill_memory
    \/ hash_password
    \/ \E lane \in LaneSet : fill_segment(lane)
    \/ \E lane \in LaneSet : SegmentView_next(lane)
    \/ \E lane \in LaneSet : fill_segment_body(lane)
    \/ for_each_join
    \/ Finalize

Spec == Init /\ [][Next]_vars

(***************************************************************************)
(* ref_block applied to one cursor state and one random value.             *)
(***************************************************************************)
RECURSIVE ViewAfter(_, _)
ViewAfter(view, n) == IF n = 0 THEN view ELSE ViewAfter(Advance(view), n - 1)

ProbeParams ==
    {[lanes |-> l, segment_length |-> s, iterations |-> MaxIterations,
      output_len |-> None, m_cost |-> l * SYNC_POINTS * s] :
        l \in 1 .. MaxLanes, s \in FIRST_BLOCKS .. MaxProbeSegmentLength}

\* the cursor states at which next calls ref_block
ProbeViews(params) ==
    {ViewAfter(SegmentView_new(ps, sl, l, params), n) :
        ps \in 0 .. iterations(params) - 1, sl \in 0 .. SYNC_POINTS - 1,
        l \in 0 .. lanes(params) - 1, n \in 0 .. segment_length(params) - 1}

RandSamples ==
    {U64(h, l) :
        h \in {Bytes4(0), Bytes4(1), Bytes4(2), <<255, 255, 255, 255>>},
        l \in {Bytes4(0), Bytes4(1), <<255, 255, 255, 127>>, <<0, 0, 0, 128>>,
               <<52, 243, 4, 181>>, <<0, 0, 255, 255>>, <<255, 255, 255, 255>>}}

InitRefBlock ==
    /\ self = [algorithm |-> "Argon2d", version |-> "V0x13", params |-> NoProbe.params]
    /\ Idle
    /\ \E params \in ProbeParams : \E view \in ProbeViews(params) :
          \E rand \in RandSamples :
            /\ view.b < segment_length(params)
            /\ probe = [view |-> view, rand |-> rand, params |-> params,
                        called |-> FALSE, ref |-> 0,
                        reference_area_size |-> 0, relative_position |-> 0]

ref_block_call ==
    /\ ~probe.called
    /\ LET ref_lane == RefLane(probe.view, probe.rand, probe.params)
           area == ReferenceAreaSize(probe.view, ref_lane, probe.params)
       IN  probe' = [probe EXCEPT
                        !.called = TRUE,
                        !.ref = ref_block(probe.view, probe.rand, probe.params),
                        !.reference_area_size = area,
                        !.relative_position = RelativePosition(area, probe.rand)]
    /\ UNCHANGED <<self, pc, entry, pwd_len, salt_len, out, memory, memory0, h0, pass,
                   slice, tasks, result, hash, writes, segments>>

NextRefBlock == ref_block_call

SpecRefBlock == InitRefBlock /\ [][NextRefBlock]_vars

(***************************************************************************)
(* Properties.                                                             *)
(***************************************************************************)
MemLen == Cardinality(DOMAIN memory)

\* the block indices of lane l's segment in the current slice
CurrentSegment(l) ==
    {x \in 0 .. block_count(self.params) - 1 :
        /\ l * lane_length(self.params) + slice * segment_length(self.params) <= x
        /\ x < l * lane_length(self.params) + (slice + 1) * segment_length(self.params)}

\* the memory the schedule run lane after lane leaves, from buffer mem and digest h
FilledMemory(ctx, mem, h) == RunSchedule(ctx, SeedLanes(mem, h, ctx.params), 0, 0, 0)

Succeeded == pc = "done" /\ result = "Ok"

\* C1: in every interleaving of the lane tasks of a slice, the block a lane
\* task is about to write lies in its own segment, and neither the previous
\* nor the reference block it reads lies in the current segment of another
\* lane.
C1_RaceFreedom ==
    pc = "fill" =>
        \A l \in LaneSet :
            tasks[l].st = "yielded" =>
                /\ tasks[l].cur \in CurrentSegment(l)
                /\ \A k \in LaneSet \ {l} :
                      /\ tasks[l].prev \notin CurrentSegment(k)
                      /\ tasks[l].ref \notin CurrentSegment(k)

\* two lane tasks hold a triple at once, after the first pass, and one of
\* them references a block of the other's lane
C1_Witness ==
    /\ pc = "fill"
    /\ pass >= 1
    /\ \E l \in LaneSet, k \in LaneSet :
          /\ l # k
          /\ tasks[l].st = "yielded"
          /\ tasks[k].st = "yielded"
          /\ tasks[l].ref \div lane_length(self.params) = k

\* C2: whatever the interleaving of the lane tasks, a call that succeeds
\* leaves the memory, and the output computed from it, that the schedule run
\* lane after lane (0, 1, ..., lanes - 1) leaves from the same buffer and digest.
C2_ScheduleIndependence ==
    Succeeded =>
        /\ memory = FilledMemory(self, memory0, h0[1])
        /\ entry # "fill_memory" =>
              out = finalize(self, FilledMemory(self, memory0, h0[1]),
                             FreshOut(out.len)).out

\* a call over more than one lane and more than one pass has succeeded
C2_Witness ==
    /\ Succeeded
    /\ entry = "hash_password_into_with_memory"
    /\ lanes(self.params) >= 2
    /\ iterations(self.params) >= 2
    /\ segment_length(self.params) >= 3

OtherVersion(ctx) ==
    [ctx EXCEPT !.version = IF @ = "V0x10" THEN "V0x13" ELSE "V0x10"]

\* C3 as stated: with one pass, the context of the other version, given the
\* same password, salt and lengths, arrives at the same memory and output.
C3_VersionsAgreeAtOnePass ==
    (Succeeded /\ entry = "hash_password_into_with_memory"
       /\ iterations(self.params) = 1) =>
        LET other == OtherVersion(self)
            filled == FilledMemory(other, memory0,
                                   initial_hash(other, pwd_len, salt_len, out.len))
        IN  /\ memory = filled
            /\ out = finalize(other, filled, FreshOut(out.len)).out

\* C3, amended: with one pass the fill and the finalizer do not depend on the
\* version: from the same initial digest the context of the other version
\* arrives at the same memory and output. The initial digest itself binds the
\* version, so the digests of the two contexts differ.
C3_VersionsAgreeFromSameDigest ==
    (Succeeded /\ iterations(self.params) = 1) =>
        LET other == OtherVersion(self)
        IN  /\ memory = FilledMemory(other, memory0, h0[1])
            /\ entry # "fill_memory" =>
                  out = finalize(other, memory, FreshOut(out.len)).out
            /\ h0[1] # initial_hash(other, pwd_len, salt_len, out.len)

\* a one-pass call of version 0x13 over two lanes has succeeded
C3_Witness ==
    /\ Succeeded
    /\ entry = "hash_password_into_with_memory"
    /\ iterations(self.params) = 1
    /\ self.version = "V0x13"
    /\ lanes(self.params) >= 2
    /\ segment_length(self.params) >= 3

DirectEntry == entry \in {"hash_password_into_with_memory", "fill_memory"}

\* the lengths other than the buffer's pass validation
LengthsValid ==
    /\ ~LenLess(USize(65535, 65535), pwd_len)
    /\ ~LenLess(salt_len, USize(0, 8))
    /\ ~LenLess(USize(65535, 65535), salt_len)
    /\ entry = "hash_password_into_with_memory" =>
          /\ ~LenLess(out.len, IF self.params.output_len.some
                                THEN self.params.output_len.len ELSE MIN_OUTPUT_LEN)
          /\ ~LenLess(IF self.params.output_len.some
                       THEN self.params.output_len.len ELSE MAX_OUTPUT_LEN,
                       out.len)

\* C4 as stated: a buffer whose length is not exactly block_count, shorter
\* or longer, makes the call fail.
C4_ExactLengthRequired ==
    (pc = "done" /\ DirectEntry /\ MemLen # block_count(self.params)) => result # "Ok"

\* C4, amended: the call fails with MemoryTooLittle exactly when the buffer
\* is shorter than block_count (the other lengths being valid); a buffer of
\* block_count blocks or more is accepted, and the blocks past block_count
\* are left as they were.
C4_AtLeastBlockCount ==
    (pc = "done" /\ DirectEntry) =>
        /\ MemLen < block_count(self.params) => result # "Ok"
        /\ result = "MemoryTooLittle" => MemLen < block_count(self.params)
        /\ (LengthsValid /\ MemLen >= block_count(self.params)) => result = "Ok"
        /\ \A x \in DOMAIN memory :
              x >= block_count(self.params) => memory[x] = memory0[x]

\* a call with a buffer one block longer than block_count has succeeded
C4_Witness ==
    /\ Succeeded
    /\ DirectEntry
    /\ MemLen = block_count(self.params) + 1

\* C5: a call that returns an input-size error or MemoryTooLittle leaves
\* every block of the buffer and the whole output buffer as they were, and a
\* buffer shorter than block_count with valid lengths yields MemoryTooLittle.
C5_ValidationBeforeMutation ==
    (pc = "done" /\ DirectEntry) =>
        /\ result \in {"OutputTooShort", "OutputTooLong", "PwdTooLong", "SaltTooShort",
                        "SaltTooLong", "MemoryTooLittle"} =>
              /\ memory = memory0
              /\ out = FreshOut(out.len)
        /\ (LengthsValid /\ MemLen < block_count(self.params)) =>
              result = "MemoryTooLittle"

\* a call given a buffer one block short has returned MemoryTooLittle
C5_Witness ==
    /\ pc = "done"
    /\ entry = "hash_password_into_with_memory"
    /\ result = "MemoryTooLittle"
    /\ MemLen = block_count(self.params) - 1

\* everything but the salt length is valid
OthersValid ==
    /\ ~LenLess(USize(65535, 65535), pwd_len)
    /\ MemLen >= block_count(self.params)
    /\ entry = "hash_password_into_with_memory" =>
          verify_output(out.len, self.params) = "Ok"

\* C6: with the other inputs valid, a call fails with SaltTooShort exactly
\* when the salt has fewer than 8 bytes, with SaltTooLong exactly when it has
\* more than 2^32 - 1, and succeeds otherwise; hash_password with a salt that
\* decodes to fewer than 8 bytes returns SaltInvalid(TooShort) and no hash.
C6_SaltBoundary ==
    pc = "done" =>
        /\ (DirectEntry /\ OthersValid) =>
              /\ result = "SaltTooShort" <=> LenLess(salt_len, USize(0, 8))
              /\ result = "SaltTooLong" <=> LenLess(USize(65535, 65535), salt_len)
              /\ result \in {"Ok", "SaltTooShort", "SaltTooLong"}
        /\ (entry = "hash_password" /\ LenLess(salt_len, USize(0, 8))) =>
              /\ result = "SaltInvalid(TooShort)"
              /\ ~hash.some

\* a call with a salt of exactly 8 bytes has succeeded
C6_Witness ==
    /\ Succeeded
    /\ entry = "hash_password_into_with_memory"
    /\ salt_len = USize(0, 8)

\* C7: hash_password_into_with_memory fails with OutputTooShort when the
\* output buffer is shorter than the lower bound and with OutputTooLong when
\* it is longer than the upper bound (both params.output_len() when set,
\* else MIN_OUTPUT_LEN and MAX_OUTPUT_LEN); within the bounds, the other
\* inputs being valid, it succeeds and fills all L bytes; a failing call
\* fills none.
C7_OutputLength ==
    (pc = "done" /\ entry = "hash_password_into_with_memory") =>
        LET lower == IF self.params.output_len.some
                     THEN self.params.output_len.len ELSE MIN_OUTPUT_LEN
            upper == IF self.params.output_len.some
                     THEN self.params.output_len.len ELSE MAX_OUTPUT_LEN
        IN  /\ LenLess(out.len, lower) => result = "OutputTooShort"
            /\ LenLess(upper, out.len) => result = "OutputTooLong"
            /\ (~LenLess(out.len, lower) /\ ~LenLess(upper, out.len)
                  /\ verify_inputs(pwd_len, salt_len) = "Ok"
                  /\ MemLen >= block_count(self.params)) =>
                  /\ result = "Ok"
                  /\ out.filled = out.len
            /\ result # "Ok" => out.filled = USize(0, 0)

\* with no output length configured, a buffer of MAX_OUTPUT_LEN bytes is
\* filled
C7_Witness ==
    /\ Succeeded
    /\ entry = "hash_password_into_with_memory"
    /\ ~self.params.output_len.some
    /\ out.len = MAX_OUTPUT_LEN
    /\ out.filled = out.len

\* C8: in the first segment of a lane (pass 0, slice 0), for every step b and
\* every random value, the reference block lies in the lane of the cursor and
\* its position in the lane is strictly less than the current block's.
C8_ReferenceBeforeCurrent ==
    (probe.called /\ probe.view.pass = 0 /\ probe.view.slice = 0) =>
        /\ probe.ref \div lane_length(probe.params) = probe.view.lane
        /\ probe.ref % lane_length(probe.params)
             < probe.view.cur_index % lane_length(probe.params)

\* in the first segment of lane 1, at a step b >= 4, ref_block has returned
\* the most recent block it may: the one before the previous block
C8_Witness ==
    /\ probe.called
    /\ probe.view.pass = 0
    /\ probe.view.slice = 0
    /\ probe.view.lane = 1
    /\ probe.view.b >= 4
    /\ probe.ref = probe.view.cur_index - 2

\* the first two blocks of every lane have been written
Seeded ==
    \A l \in LaneSet : \A i \in 0 .. FIRST_BLOCKS - 1 :
        writes[l * lane_length(self.params) + i] >= 1

\* C9: a lane task that has started belongs to the current (pass, slice) and
\* runs after the seeding; (pass, slice) moves only to its successor in the
\* order pass 0..iterations, slice 0..4, and only once every lane task of the
\* current (pass, slice) has finished, after which no task has started yet;
\* the schedule is left only after the last slice of the last pass.
C9_ScheduleOrdering ==
    /\ [](\A l \in LaneSet :
            tasks[l].st # "pending" =>
                /\ pc = "fill"
                /\ tasks[l].view.pass = pass
                /\ tasks[l].view.slice = slice
                /\ tasks[l].view.lane = l
                /\ Seeded)
    /\ [][/\ (pc = "fill" /\ <<pass, slice>>' # <<pass, slice>>) =>
               /\ \A l \in LaneSet : tasks[l].st = "finished"
               /\ \A l \in LaneSet : tasks'[l].st = "pending"
               /\ pc' = "fill"
               /\ \/ slice + 1 < SYNC_POINTS /\ slice' = slice + 1 /\ pass' = pass
                  \/ /\ slice + 1 = SYNC_POINTS
                     /\ slice' = 0
                     /\ pass' = pass + 1
                     /\ pass' < iterations(self.params)
          /\ (pc = "fill" /\ pc' # "fill") =>
               /\ \A l \in LaneSet : tasks[l].st = "finished"
               /\ slice = SYNC_POINTS - 1
               /\ pass = iterations(self.params) - 1
          /\ (pc # "fill" /\ pc' = "fill") => (pass' = 0 /\ slice' = 0)]_vars

\* in the first slice of the second pass, one lane task has finished while
\* another holds a triple
C9_Witness ==
    /\ pc = "fill"
    /\ pass = 1
    /\ slice = 0
    /\ \E l \in LaneSet, k \in LaneSet :
          tasks[l].st = "finished" /\ tasks[k].st = "yielded"

\* the steps a lane task has left in its segment
StepsLeft(task) ==
    CASE task.st = "pending" ->
            2 * segment_length(self.params) + 2
      [] task.st = "running" ->
            2 * (segment_length(self.params) - task.view.b) + 1
      [] task.st = "yielded" ->
            2 * (segment_length(self.params) - task.view.b) + 2
      [] OTHER -> 0

RECURSIVE SumStepsLeft(_)
SumStepsLeft(l) == IF l < 0 THEN 0 ELSE StepsLeft(tasks[l]) + SumStepsLeft(l - 1)

\* a bound on the steps the schedule has left: the slices to come, each at
\* its full length, and the current slice
ScheduleLeft ==
    ((iterations(self.params) - pass) * SYNC_POINTS - slice)
        * (lanes(self.params) * (2 * segment_length(self.params) + 2) + 1)
    + SumStepsLeft(lanes(self.params) - 1)

\* C10: a cursor is exhausted after exactly segment_length triples,
\* segment_length - 2 in the first segment of a lane; each call of next
\* that yields moves b on by one; no segment gets a second cursor, and a
\* call that succeeds has run exactly one cursor over every (pass, slice,
\* lane); the fill terminates: in the schedule some lane task can start, ask
\* for a triple or fill a block, or for_each can return, and every step
\* lowers the bound on the steps left.
C10_CursorTermination ==
    /\ [](\A l \in LaneSet :
            /\ tasks[l].st = "finished" =>
                  tasks[l].yields = segment_length(self.params)
                      - (IF pass = 0 /\ slice = 0 THEN FIRST_BLOCKS ELSE 0)
            /\ tasks[l].st # "pending" =>
                  tasks[l].yields + (IF pass = 0 /\ slice = 0 THEN FIRST_BLOCKS ELSE 0)
                      = tasks[l].view.b)
    /\ [](\A t \in DOMAIN segments : segments[t] <= 1)
    /\ [](Succeeded => \A t \in DOMAIN segments : segments[t] = 1)
    /\ [][\A l \in LaneSet :
            (tasks[l].st = "running" /\ tasks'[l].st = "yielded") =>
                /\ tasks'[l].view.b = tasks[l].view.b + 1
                /\ tasks'[l].cur = tasks[l].view.cur_index
                /\ tasks'[l].view.b <= segment_length(self.params)]_vars
    /\ [](pc = "fill" =>
            \/ \E l \in LaneSet : tasks[l].st \in {"pending", "running", "yielded"}
            \/ AllReturned)
    /\ [][pc = "fill" => (pc' # "fill" \/ ScheduleLeft' < ScheduleLeft)]_vars

\* the cursor of the first segment of a lane is exhausted after at least
\* one triple, with the other lane's cursor still running
C10_Witness ==
    /\ pc = "fill"
    /\ pass = 0
    /\ slice = 0
    /\ \E l \in LaneSet, k \in LaneSet :
          /\ tasks[l].st = "finished"
          /\ tasks[l].yields = segment_length(self.params) - FIRST_BLOCKS
          /\ tasks[l].yields >= 1
          /\ tasks[k].st = "yielded"

\* C11: the PasswordHash that hash_password returns carries the algorithm,
\* the version and the t, m and p parameters configured in the instance it
\* was called on, whatever that configuration is; a failing call returns none.
C11_RetainsConfiguredParams ==
    (pc = "done" /\ entry = "hash_password") =>
        IF result = "Ok"
        THEN /\ hash.some
             /\ hash.algorithm = self.algorithm
             /\ hash.version = VersionCode(self.version)
             /\ hash.t = self.params.iterations
             /\ hash.m = self.params.m_cost
             /\ hash.p = self.params.lanes
        ELSE ~hash.some

\* hash_password has succeeded on an instance of version 0x10 with two
\* passes, two lanes and Argon2d
C11_Witness ==
    /\ pc = "done"
    /\ entry = "hash_password"
    /\ result = "Ok"
    /\ hash.some
    /\ self.version = "V0x10"
    /\ self.algorithm = "Argon2d"
    /\ self.params.iterations = 2
    /\ self.params.lanes = 2

\* C12: the step that consumes a yielded triple leaves in the current block
\* compress(previous, reference) when the version is 0x10 or the pass is 0,
\* and the old content of the current block XOR compress(previous, reference)
\* otherwise; it changes no other block, and no other step of the schedule
\* changes a block.
C12_CombineSemantics ==
    /\ [][\A l \in LaneSet :
            (pc = "fill" /\ tasks[l].st = "yielded" /\ tasks'[l].st = "running") =>
                LET res == compress(memory[tasks[l].prev], memory[tasks[l].ref])
                IN  /\ memory'[tasks[l].cur] =
                          IF self.version = "V0x10" \/ pass = 0
                          THEN res
                          ELSE BitXor(memory[tasks[l].cur], res)
                    /\ \A x \in DOMAIN memory :
                          x # tasks[l].cur => memory'[x] = memory[x]]_vars
    /\ [][(pc = "fill" /\ memory' # memory) =>
            \E l \in LaneSet : tasks[l].st = "yielded" /\ tasks'[l].st = "running"]_vars

\* in the second pass of version 0x13 a lane task has combined a result into
\* a block that the first pass had written
C12_Witness ==
    /\ pc = "fill"
    /\ pass = 1
    /\ self.version = "V0x13"
    /\ \E l \in LaneSet :
          /\ tasks[l].st = "running"
          /\ tasks[l].yields >= 1
          /\ writes[tasks[l].cur] = 2

\* C13: a segment is addressed data-independently always under Argon2i,
\* exactly in pass 0, slices 0 and 1 under Argon2id, and never under Argon2d;
\* the random value of a step is word 0 of the previous block in
\* data-dependent mode and word b % 128 of the address block otherwise.
C13_AddressingMode ==
    /\ [](\A l \in LaneSet :
            tasks[l].st # "pending" =>
                (tasks[l].data_independent <=>
                    \/ self.algorithm = "Argon2i"
                    \/ self.algorithm = "Argon2id" /\ pass = 0 /\ slice < 2))
    /\ [][\A l \in LaneSet :
            (tasks[l].st = "running" /\ tasks'[l].st = "yielded") =>
                tasks'[l].rand =
                    IF tasks[l].data_independent
                    THEN Word(tasks'[l].address_block, tasks[l].view.b % 128)
                    ELSE Word(memory[tasks[l].view.prev_index], 0)]_vars

\* under Argon2id, in slice 2 of pass 0, a lane task holds a triple addressed
\* from the previous block
C13_Witness ==
    /\ pc = "fill"
    /\ self.algorithm = "Argon2id"
    /\ pass = 0
    /\ slice = 2
    /\ \E l \in LaneSet :
          /\ tasks[l].st = "yielded"
          /\ ~tasks[l].data_independent
          /\ tasks[l].rand = Word(memory[tasks[l].prev], 0)

\* C14: the index ref_block dereferences is
\* ref_lane * lane_length + ((start_offset + relative_position) mod lane_length)
\* with ref_lane the cursor's lane in the first segment and (rand >> 32) mod
\* lanes otherwise, area_size by the five cases, relative_position =
\* area_size - 1 - ((area_size * ((low32 * low32) >> 32)) >> 32), and
\* start_offset 0 in pass 0 and in slice 3, (slice + 1) * segment_length
\* otherwise.
C14_ReferenceIndexFormula ==
    probe.called =>
        LET v == probe.view
            seg == probe.params.segment_length
            len == SYNC_POINTS * seg
            ref_lane == IF v.pass = 0 /\ v.slice = 0
                        THEN v.lane
                        ELSE DigitsMod(Shr32(probe.rand), probe.params.lanes)
            area_size ==
                CASE v.pass = 0 /\ v.slice = 0 -> v.b - 1
                  [] v.pass = 0 /\ v.slice > 0 /\ ref_lane = v.lane ->
                        v.slice * seg + v.b - 1
                  [] v.pass = 0 /\ v.slice > 0 /\ ref_lane # v.lane ->
                        IF v.b = 0 THEN v.slice * seg - 1 ELSE v.slice * seg
                  [] v.pass > 0 /\ ref_lane = v.lane -> len - seg + v.b - 1
                  [] v.pass > 0 /\ ref_lane # v.lane ->
                        IF v.b = 0 THEN len - seg - 1 ELSE len - seg
            low32 == Low32(probe.rand)
            map == Shr32(MulDigits(low32, low32))
            relative_position ==
                area_size - 1 - ToNat(Shr32(MulDigits(ToDigits(area_size, 8), map)))
            start_offset == IF v.pass = 0 \/ v.slice = 3 THEN 0 ELSE (v.slice + 1) * seg
        IN  /\ area_size >= 1
            /\ relative_position \in 0 .. area_size - 1
            /\ probe.ref = ref_lane * len + ((start_offset + relative_position) % len)

\* after the first pass, in slice 1 or 2, ref_block has returned a block of
\* another lane that lies before the current slice: the window has wrapped
\* around the end of the lane
C14_Witness ==
    /\ probe.called
    /\ probe.view.pass = 1
    /\ probe.view.slice \in {1, 2}
    /\ probe.ref \div lane_length(probe.params) # probe.view.lane
    /\ probe.ref % lane_length(probe.params)
          < probe.view.slice * segment_length(probe.params)

\* C15: in data-independent mode the counter word is 0 when the segment
\* starts, or 1 in the first segment of a lane, whose first address block is
\* generated before the first step; each step with b % 128 = 0 raises it by
\* exactly one and no other step changes it; so at step b the counter is
\* floor(b / 128) + 1 and the address block is the one generated from the
\* input block with that counter, never the ungenerated one.
C15_AddressRegeneration ==
    /\ [](\A l \in LaneSet :
            (tasks[l].st = "yielded" /\ tasks[l].data_independent) =>
                /\ tasks[l].input_block.counter = ((tasks[l].view.b - 1) \div 128) + 1
                /\ tasks[l].address_block =
                      compress(ZeroBlock,
                               compress(ZeroBlock, InputBlockValue(tasks[l].input_block))))
    /\ [][\A l \in LaneSet :
            /\ (tasks[l].st = "pending" /\ tasks'[l].st = "running"
                   /\ tasks'[l].data_independent) =>
                  tasks'[l].input_block.counter = IF pass = 0 /\ slice = 0 THEN 1 ELSE 0
            /\ (tasks[l].st = "running" /\ tasks'[l].st = "yielded"
                   /\ tasks[l].data_independent) =>
                  tasks'[l].input_block.counter =
                      tasks[l].input_block.counter
                        + (IF tasks[l].view.b % 128 = 0 THEN 1 ELSE 0)
            /\ (tasks[l].st = "yielded" /\ tasks'[l].st = "running") =>
                  tasks'[l].input_block = tasks[l].input_block]_vars

\* in the first segment of a lane the step b = 128 has regenerated the
\* address block a second time
C15_Witness ==
    /\ pc = "fill"
    /\ pass = 0
    /\ slice = 0
    /\ \E l \in LaneSet :
          /\ tasks[l].st = "yielded"
          /\ tasks[l].data_independent
          /\ tasks[l].view.b - 1 = 128
          /\ tasks[l].input_block.counter = 2

\* C16: in every interleaving, the previous block and the reference block of
\* a yielded triple have been written in this call before they are read:
\* seeded, or filled by an earlier step; in pass 0 each has been written
\* exactly once, and the current block not yet.
C16_NoReadOfUnwritten ==
    pc = "fill" =>
        \A l \in LaneSet :
            tasks[l].st = "yielded" =>
                /\ writes[tasks[l].prev] >= 1
                /\ writes[tasks[l].ref] >= 1
                /\ pass = 0 =>
                      /\ writes[tasks[l].prev] = 1
                      /\ writes[tasks[l].ref] = 1
                      /\ writes[tasks[l].cur] = 0

\* in pass 0 a lane task holds a triple whose reference block lies in
\* another lane, while that lane's task has not finished its segment
C16_Witness ==
    /\ pc = "fill"
    /\ pass = 0
    /\ slice >= 1
    /\ \E l \in LaneSet, k \in LaneSet :
          /\ l # k
          /\ tasks[l].st = "yielded"
          /\ tasks[l].ref \div lane_length(self.params) = k
          /\ writes[tasks[l].ref] = 1
          /\ tasks[k].st \in {"running", "yielded"}

\* C17: at every step of a cursor for (pass, slice, lane), the yielded
\* current index is lane * lane_length + slice * segment_length + b and the
\* previous index is lane * lane_length + ((slice * segment_length + b - 1)
\* mod lane_length): the block just before it in the lane, the lane's last
\* block exactly at b = 0 of slice 0 after the first pass; the indices the
\* cursor keeps for its next step follow the same closed form.
C17_IndicesClosedForm ==
    pc = "fill" =>
        \A l \in LaneSet :
            LET len == SYNC_POINTS * self.params.segment_length
                at == slice * self.params.segment_length
                base == l * len
                t == tasks[l]
            IN  /\ t.st = "yielded" =>
                      LET b == t.view.b - 1
                      IN  /\ t.cur = base + at + b
                          /\ t.prev = base + ((at + b - 1 + len) % len)
                          /\ IF pass > 0 /\ slice = 0 /\ b = 0
                             THEN t.prev = base + len - 1
                             ELSE t.prev = t.cur - 1
                /\ t.st \in {"running", "yielded", "finished"} =>
                      /\ t.view.cur_index = base + at + t.view.b
                      /\ t.view.prev_index = base + ((at + t.view.b - 1 + len) % len)

\* after the first pass, the cursor of the first slice of the second lane has
\* yielded its first triple: the previous block is the last block of the lane
C17_Witness ==
    /\ pc = "fill"
    /\ pass = 1
    /\ slice = 0
    /\ \E l \in LaneSet :
          /\ l >= 1
          /\ tasks[l].st = "yielded"
          /\ tasks[l].view.b = 1
          /\ tasks[l].prev = tasks[l].cur + lane_length(self.params) - 1

\* the sum of w over the indices from, ..., to - 1
RECURSIVE SumWrites(_, _, _)
SumWrites(w, from, to) ==
    IF to <= from THEN 0
    ELSE IF to = from + 1 THEN w[from]
    ELSE SumWrites(w, from, (from + to) \div 2) + SumWrites(w, (from + to) \div 2, to)

\* C19: the seeding writes the first two blocks of each lane once and no
\* other block, each cursor step writes one block once, and after a
\* successful call with t = iterations every block below block_count has
\* been written exactly t times, which makes t * block_count - 2 * lanes
\* cursor steps in all; blocks past block_count are never written.
C19_WriteCoverage ==
    /\ [](Succeeded =>
            /\ \A x \in DOMAIN writes :
                  writes[x] = IF x < block_count(self.params)
                              THEN iterations(self.params) ELSE 0
            /\ SumWrites(writes, 0, block_count(self.params)) - FIRST_BLOCKS * lanes(self.params)
                  = iterations(self.params) * block_count(self.params)
                      - 2 * lanes(self.params))
    /\ [][(pc = "idle" /\ pc' = "fill") =>
            \A x \in DOMAIN writes' :
                writes'[x] = IF x < block_count(self.params)
                                /\ x % lane_length(self.params) < 2
                             THEN 1 ELSE 0]_vars
    /\ [][(pc = "fill" /\ writes' # writes) =>
            \E l \in LaneSet :
                /\ tasks[l].st = "yielded"
                /\ tasks'[l].st = "running"
                /\ writes' = [writes EXCEPT ![tasks[l].cur] = @ + 1]]_vars
    /\ [][\A l \in LaneSet :
            (pc = "fill" /\ tasks[l].st = "yielded" /\ tasks'[l].st = "running") =>
                writes' # writes]_vars

\* a call over two lanes and two passes has succeeded
C19_Witness ==
    /\ Succeeded
    /\ iterations(self.params) = 2
    /\ lanes(self.params) = 2
    /\ writes[0] = 2
    /\ writes[block_count(self.params) - 1] = 2

\* the XOR of the last blocks of the lanes, taken in the given order
RECURSIVE XorInOrder(_, _)
XorInOrder(order, n) ==
    IF n = 0 THEN 0
    ELSE BitXor(XorInOrder(order, n - 1),
                memory[order[n] * lane_length(self.params) + lane_length(self.params) - 1])

LaneOrders ==
    {o \in [1 .. lanes(self.params) -> LaneSet] :
        \A i, j \in DOMAIN o : i # j => o[i] # o[j]}

\* C18: the block finalize stretches to the output is the XOR of the last
\* block of every lane, in whatever order the lanes are taken, and finalize
\* leaves every block of the memory as it was.
C18_Finalizer ==
    /\ [](Succeeded /\ entry # "fill_memory" =>
            \A o \in LaneOrders :
                out.data[1] = XorInOrder(o, lanes(self.params)))
    /\ [][pc = "finalize" => (pc' = "done" /\ memory' = memory)]_vars

\* a call over two lanes has succeeded, and the last blocks of the lanes
\* differ and are not zero
C18_Witness ==
    /\ Succeeded
    /\ entry = "hash_password_into_with_memory"
    /\ lanes(self.params) = 2
    /\ memory[lane_length(self.params) - 1] # 0
    /\ memory[2 * lane_length(self.params) - 1] # 0
    /\ memory[lane_length(self.params) - 1] # memory[2 * lane_length(self.params) - 1]
    /\ out.data[1] # 0

\* C20: in every triple the current block is neither the previous block nor
\* the reference block; a reference block in the cursor's own lane lies at
\* least two positions before the current block, counted cyclically in the
\* lane, so it is not the previous block either.
C20_NoAliasing ==
    probe.called =>
        LET len == lane_length(probe.params)
            cur == probe.view.cur_index
            prev == probe.view.prev_index
        IN  /\ cur # prev
            /\ cur # probe.ref
            /\ prev \div len = probe.view.lane
            /\ probe.ref \div len = probe.view.lane =>
                  /\ (cur - probe.ref + len) % len >= 2
                  /\ probe.ref # prev

\* after the first pass ref_block has returned, in the cursor's own lane, the
\* block two positions before the current one
C20_Witness ==
    /\ probe.called
    /\ probe.view.pass = 1
    /\ probe.params.lanes = 2
    /\ probe.ref \div lane_length(probe.params) = probe.view.lane
    /\ (probe.view.cur_index - probe.ref + lane_length(probe.params))
          % lane_length(probe.params) = 2

\* C21: every index of a yielded triple, and the previous index the cursor
\* reads when asked for its next triple, lies below block_count; the current
\* and previous indices lie in the lane of the cursor and the reference
\* index in the reference lane; blocks of the buffer at block_count and
\* beyond are neither written nor changed by a call.
C21_InBounds ==
    LET len == SYNC_POINTS * self.params.segment_length
        count == self.params.lanes * len
    IN  /\ pc = "fill" =>
              \A l \in LaneSet :
                  /\ tasks[l].st = "yielded" =>
                        /\ {tasks[l].cur, tasks[l].prev, tasks[l].ref} \subseteq 0 .. count - 1
                        /\ tasks[l].cur \in l * len .. (l + 1) * len - 1
                        /\ tasks[l].prev \in l * len .. (l + 1) * len - 1
                        /\ tasks[l].ref \div len =
                              IF pass = 0 /\ slice = 0 THEN l
                              ELSE DigitsMod(Shr32(tasks[l].rand), self.params.lanes)
                  /\ (tasks[l].st = "running"
                        /\ tasks[l].view.b < self.params.segment_length) =>
                        /\ tasks[l].view.cur_index \in l * len .. (l + 1) * len - 1
                        /\ tasks[l].view.prev_index \in l * len .. (l + 1) * len - 1
        /\ pc # "idle" =>
              \A x \in DOMAIN memory :
                  x >= count => (writes[x] = 0 /\ memory[x] = memory0[x])

\* with a buffer one block longer than block_count, the cursor of the last
\* segment holds a triple whose current block is the last configured block
C21_Witness ==
    /\ pc = "fill"
    /\ MemLen = block_count(self.params) + 1
    /\ slice = SYNC_POINTS - 1
    /\ \E l \in LaneSet :
          /\ tasks[l].st = "yielded"
          /\ tasks[l].cur = block_count(self.params) - 1

\* C22: at every step of the schedule and for every random value, no
\* subtraction of ref_block goes below 0: b - 1 in the first segment, the
\* sums less 1 of the other cases and the area less the mapped value; the
\* reference area holds at least one block, and the relative position lies
\* in 0 .. area_size - 1.
C22_NoUnderflow ==
    probe.called =>
        LET v == probe.view
            seg == probe.params.segment_length
            len == SYNC_POINTS * seg
            same == probe.ref \div len = v.lane
            map == Shr32(MulDigits(Low32(probe.rand), Low32(probe.rand)))
            mapped == ToNat(Shr32(MulDigits(ToDigits(probe.reference_area_size, 8), map)))
        IN  /\ seg >= 2
            /\ (v.pass = 0 /\ v.slice = 0) => v.b - 1 >= 1
            /\ (v.pass = 0 /\ v.slice > 0 /\ same) => v.slice * seg + v.b - 1 >= 1
            /\ (v.pass = 0 /\ v.slice > 0 /\ ~same) =>
                  v.slice * seg - (IF v.b = 0 THEN 1 ELSE 0) >= 1
            /\ (v.pass > 0 /\ same) => len - seg + v.b - 1 >= 1
            /\ (v.pass > 0 /\ ~same) => len - seg - (IF v.b = 0 THEN 1 ELSE 0) >= 1
            /\ probe.reference_area_size >= 1
            /\ probe.reference_area_size - 1 - mapped >= 0
            /\ probe.relative_position \in 0 .. probe.reference_area_size - 1

\* at the first step of the first segment (b = 2) the area is the single
\* block 0, and the largest low half of rand maps to relative position 0
C22_Witness ==
    /\ probe.called
    /\ probe.view.pass = 0
    /\ probe.view.slice = 0
    /\ probe.view.b = 2
    /\ Low32(probe.rand) = <<255, 255, 255, 255>>
    /\ probe.reference_area_size = 1
    /\ probe.relative_position = 0

====
